---------------------------- MODULE Spec2Model ----------------------------
(***************************************************************************)
(* Model of package convert (src/convert/convert.go): the translation of   *)
(* parsed proto documents to gunk text.                                    *)
(*                                                                         *)
(* Text is a sequence of lines: the Go string obtained by joining the      *)
(* lines with "\n".  <<"">> is the empty string, <<"a", "">> is "a\n".     *)
(* The strings of the input universes hold no '%', '"' or '\' character,   *)
(* so %q only adds the surrounding quotes and a value re-read as a format  *)
(* string (convert.go:565) is written unchanged.                           *)
(***************************************************************************)
EXTENDS Integers, Sequences, FiniteSets, TLC

(***************************************************************************)
(* Bounds of the input universes.                                          *)
(***************************************************************************)
MaxElements == 3
MaxPaths == 3
MaxEnumElements == 3
MaxMap == 2
MaxOptions == 2
MaxApply == 2

(***************************************************************************)
(* Text helpers.                                                           *)
(***************************************************************************)
Empty == <<"">>
Nl == <<"", "">>

\* strings.Builder: appending text t to text w.
Cat(w, t) ==
    SubSeq(w, 1, Len(w) - 1) \o <<w[Len(w)] \o t[1]>> \o Tail(t)

RECURSIVE CatAll(_)
CatAll(ts) ==
    IF ts = <<>> THEN Empty ELSE Cat(ts[1], CatAll(Tail(ts)))

\* a one-line string followed by "\n"
Line(s) == <<s, "">>

Range(s) == {s[i] : i \in DOMAIN s}

RECURSIVE Tabs(_)
Tabs(n) == IF n = 0 THEN "" ELSE "\t" \o Tabs(n - 1)

\* fmt's %q on a string of the universes
Quote(s) == "\"" \o s \o "\""

RECURSIVE CommentLines(_, _)
CommentLines(indent, lines) ==
    IF lines = <<>> THEN Empty
    ELSE Cat(Line(Tabs(indent) \o "//" \o lines[1]),
             CommentLines(indent, Tail(lines)))

\* builder.format: the comment lines, then the indented text s (the format
\* string with its arguments applied); only the comment when s is "".
\* A nil comment is the empty sequence of lines.
Format(w, indent, comments, s) ==
    LET c == Cat(w, CommentLines(indent, comments))
    IN  IF s = Empty THEN c
        ELSE Cat(c, <<Tabs(indent) \o s[1]>> \o Tail(s))


(***************************************************************************)
(* Errors.  formatError renders "%s:%d:%d: %v" from the builder's file     *)
(* name and a scanner.Position; the record keeps the position it was given *)
(* beside the message, ErrorString is the rendered text.                   *)
(***************************************************************************)
NoPos == [Line |-> 0, Column |-> 0]

NoError == [Positioned |-> FALSE, Filename |-> "", Pos |-> NoPos, Msg |-> ""]

\* fmt.Errorf without a position
Errorf(msg) == [Positioned |-> FALSE, Filename |-> "", Pos |-> NoPos, Msg |-> msg]

formatError(b, pos, msg) ==
    [Positioned |-> TRUE, Filename |-> b.filename, Pos |-> pos, Msg |-> msg]

ErrorString(e) ==
    IF e.Positioned
    THEN e.Filename \o ":" \o ToString(e.Pos.Line) \o ":"
         \o ToString(e.Pos.Column) \o ": " \o e.Msg
    ELSE e.Msg

\* fmt's %T of a parsed element
TypeName(e) == "*proto." \o e.kind

(***************************************************************************)
(* The Type Mapper.                                                        *)
(***************************************************************************)
ScalarNames ==
    {"bool", "string", "bytes", "double", "float", "int32", "sint32",
     "sfixed32", "int64", "sint64", "sfixed64", "uint32", "fixed32",
     "uint64", "fixed64"}

\* int32 kept as int32 instead of mapped to int
goTypeKeepInt32(fieldType) ==
    CASE fieldType = "bool" -> "bool"
      [] fieldType = "string" -> "string"
      [] fieldType = "bytes" -> "[]byte"
      [] fieldType = "double" -> "float64"
      [] fieldType = "float" -> "float32"
      [] fieldType \in {"int32", "sint32", "sfixed32"} -> "int32"
      [] fieldType \in {"int64", "sint64", "sfixed64"} -> "int64"
      [] fieldType \in {"uint32", "fixed32"} -> "uint32"
      [] fieldType \in {"uint64", "fixed64"} -> "uint64"
      [] OTHER -> fieldType

goType(fieldType) ==
    CASE fieldType = "bool" -> "bool"
      [] fieldType = "string" -> "string"
      [] fieldType = "bytes" -> "[]byte"
      [] fieldType = "double" -> "float64"
      [] fieldType = "float" -> "float32"
      [] fieldType = "int32" -> "int"
      [] fieldType \in {"sint32", "sfixed32"} -> "int32"
      [] fieldType \in {"int64", "sint64", "sfixed64"} -> "int64"
      [] fieldType \in {"uint32", "fixed32"} -> "uint32"
      [] fieldType \in {"uint64", "fixed64"} -> "uint64"
      [] OTHER -> fieldType

(***************************************************************************)
(* Library conversions, on the identifiers of the input universes.         *)
(***************************************************************************)
\* snaker.ForceCamelIdentifier
ForceCamelIdentifier(name) ==
    CASE name = "msg" -> "Msg"
      [] name = "code" -> "Code"
      [] name = "labels" -> "Labels"
      [] name = "old_field" -> "OldField"
      [] name = "Kind" -> "Kind"

\* snaker.CamelToSnake
CamelToSnake(name) ==
    CASE name = "msg" -> "msg"
      [] name = "code" -> "code"
      [] name = "labels" -> "labels"
      [] name = "old_field" -> "old_field"
      [] name = "Kind" -> "kind"

\* strings.ToUpper
ToUpper(s) ==
    CASE s = "get" -> "GET"
      [] s = "Post" -> "POST"
      [] s = "post" -> "POST"
      [] s = "" -> ""

\* filepath.Base of an annotation import path
Base(impt) ==
    CASE impt = "github.com/gunk/opt/file" -> "file"
      [] impt = "github.com/gunk/opt/file/java" -> "java"
      [] impt = "github.com/gunk/opt/file/swift" -> "swift"
      [] impt = "github.com/gunk/opt/file/csharp" -> "csharp"
      [] impt = "github.com/gunk/opt/file/objc" -> "objc"
      [] impt = "github.com/gunk/opt/file/php" -> "php"
      [] impt = "github.com/gunk/opt/file/cc" -> "cc"

(***************************************************************************)
(* The builder.  A handler yields the builder it leaves, the error it      *)
(* returns and the lines it printed to os.Stderr.                          *)
(***************************************************************************)
NilPackage == [kind |-> "nil", Name |-> "", Comment |-> <<>>, Position |-> NoPos]

NewBuilder(filename) ==
    [filename |-> filename,
     translatedDeclarations |-> <<>>,
     pkg |-> NilPackage,
     pkgOpts |-> <<>>,
     imports |-> <<>>,
     importsUsed |-> {}]

Unhandled(b, o, what) ==
    ErrorString(formatError(b, o.Position,
                            "unhandled " \o what \o " option " \o Quote(o.Name)))

RECURSIVE OptionDiagnostics(_, _, _)
OptionDiagnostics(b, options, what) ==
    IF options = <<>> THEN <<>>
    ELSE <<Unhandled(b, options[1], what)>>
         \o OptionDiagnostics(b, Tail(options), what)

\* The back quote that delimits a struct tag (a TLA+ string cannot hold the
\* character itself).
BackQuote == "'"

\* the type token of a field (lines 261-285)
FieldType(field) ==
    IF field.kind = "NormalField"
    THEN (IF field.Repeated THEN "[]" ELSE "") \o goType(field.Type)
    ELSE "map[" \o goType(field.KeyType) \o "]" \o goType(field.Type)

\* the struct member line of a field (lines 296-297)
FieldLine(field) ==
    Cat(Format(Empty, 1, field.Comment,
               <<ForceCamelIdentifier(field.Name) \o " " \o FieldType(field)>>),
        Line(" " \o BackQuote \o "pb:\"" \o ToString(field.Sequence) \o "\" json:\""
             \o CamelToSnake(field.Name) \o "\"" \o BackQuote))

handleMessageField(b, w, field) ==
    IF field.kind \notin {"NormalField", "MapField"}
    THEN [w |-> w, stderr |-> <<>>,
          err |-> Errorf("unhandled message field type " \o TypeName(field))]
    ELSE [w |-> Cat(w, FieldLine(field)),
          stderr |-> OptionDiagnostics(b, field.Options, "field"),
          err |-> NoError]


(***************************************************************************)
(* handleEnum.                                                             *)
(***************************************************************************)
\* first loop (lines 348-362): the strategy, the diagnostics of the enum's
\* options, and the error of the first element of another kind.  i is the
\* one-based index of the element; Go's index is i - 1.
EnumScanElement(b, e, i, acc) ==
    LET c == e.Elements[i]
    IN  CASE c.kind = "EnumField" ->
               [acc EXCEPT !.outputIota = @ /\ (i - 1 = c.Integer)]
          [] c.kind = "Option" ->
               [acc EXCEPT !.stderr = Append(@, Unhandled(b, c, "enum"))]
          [] OTHER ->
               [acc EXCEPT !.err =
                   formatError(b, e.Position,
                               "unexpected type " \o TypeName(c)
                               \o " in enum, expected enum field")]

RECURSIVE EnumScan(_, _, _, _)
EnumScan(b, e, i, acc) ==
    IF i > Len(e.Elements) \/ acc.err # NoError THEN acc
    ELSE EnumScan(b, e, i + 1, EnumScanElement(b, e, i, acc))

\* the strategy handleEnum selects for an enum it translates
OutputIota(b, e) ==
    EnumScan(b, e, 1, [outputIota |-> TRUE, stderr |-> <<>>, err |-> NoError]).outputIota

\* the option elements of an enum value (lines 374-379)
OptionsOf(elements) == SelectSeq(elements, LAMBDA x : x.kind = "Option")

\* one value line (lines 381-393)
EnumValueLine(e, ef, i, outputIota) ==
    IF ~outputIota
    THEN Line(ef.Name \o " " \o e.Name \o " = " \o ToString(ef.Integer))
    ELSE IF i - 1 = 0
         THEN Line(ef.Name \o " " \o e.Name \o " = iota")
         ELSE Line(ef.Name)

\* second loop (lines 365-394)
EnumEmitElement(b, e, i, outputIota, acc) ==
    LET c == e.Elements[i]
    IN  IF c.kind # "EnumField" THEN acc
        ELSE [w |-> Format(acc.w, 1, c.Comment, EnumValueLine(e, c, i, outputIota)),
              stderr |-> acc.stderr
                 \o OptionDiagnostics(b, OptionsOf(c.Elements), "enumvalue")]

RECURSIVE EnumEmit(_, _, _, _, _)
EnumEmit(b, e, i, outputIota, acc) ==
    IF i > Len(e.Elements) THEN acc
    ELSE EnumEmit(b, e, i + 1, outputIota, EnumEmitElement(b, e, i, outputIota, acc))

handleEnum(b, e) ==
    LET head == Format(Format(Empty, 0, e.Comment, Line("type " \o e.Name \o " int")),
                       0, <<>>, <<"", "const (", "">>)
        scan == EnumScan(b, e, 1,
                         [outputIota |-> TRUE, stderr |-> <<>>, err |-> NoError])
        emit == EnumEmit(b, e, 1, scan.outputIota,
                         [w |-> head, stderr |-> scan.stderr])
    IN  IF scan.err # NoError
        THEN [b |-> b, err |-> scan.err, stderr |-> scan.stderr]
        ELSE [b |-> [b EXCEPT !.translatedDeclarations =
                         Append(@, Format(emit.w, 0, <<>>, <<")">>))],
              err |-> NoError,
              stderr |-> emit.stderr]

(***************************************************************************)
(* handleMessage.                                                          *)
(***************************************************************************)
\* The error of a nested enum is dropped: line 316 calls handleEnum without
\* reading what it returns.
NestedEnum(acc, c) ==
    LET r == handleEnum(acc.b, c)
    IN  [acc EXCEPT !.b = r.b, !.stderr = @ \o r.stderr]

\* one turn of the loop over m.Elements (lines 305-330)
MessageElement(m, i, acc) ==
    LET c == m.Elements[i]
    IN  CASE c.kind \in {"NormalField", "MapField"} ->
               LET r == handleMessageField(acc.b, acc.w, c)
               IN  IF r.err # NoError
                   THEN [acc EXCEPT !.stderr = @ \o r.stderr,
                           !.err = formatError(acc.b, c.Position,
                                       "error with message field: "
                                       \o ErrorString(r.err))]
                   ELSE [acc EXCEPT !.w = r.w, !.stderr = @ \o r.stderr]
          [] c.kind = "Enum" -> NestedEnum(acc, c)
          [] c.kind = "Comment" -> [acc EXCEPT !.w = Format(@, 1, c.Lines, Empty)]
          [] c.kind = "Option" ->
               [acc EXCEPT !.stderr = Append(@, Unhandled(acc.b, c, "message"))]
          [] OTHER ->
               [acc EXCEPT !.err =
                   formatError(acc.b, m.Position,
                               "unexpected type " \o TypeName(c) \o " in message")]

RECURSIVE MessageElements(_, _, _)
MessageElements(m, i, acc) ==
    IF i > Len(m.Elements) \/ acc.err # NoError THEN acc
    ELSE MessageElements(m, i + 1, MessageElement(m, i, acc))

handleMessage(b, m) ==
    LET r == MessageElements(m, 1,
                [b |-> b,
                 w |-> Format(Empty, 0, m.Comment,
                              Line("type " \o m.Name \o " struct {")),
                 stderr |-> <<>>, err |-> NoError])
    IN  IF r.err # NoError
        THEN [b |-> r.b, err |-> r.err, stderr |-> r.stderr]
        ELSE [b |-> [r.b EXCEPT !.translatedDeclarations =
                         Append(@, Format(r.w, 0, <<>>, <<"}">>))],
              err |-> NoError,
              stderr |-> r.stderr]


(***************************************************************************)
(* handleService.                                                          *)
(***************************************************************************)
handleLiteralString(lit) ==
    IF ~lit.IsString
    THEN [s |-> "", err |-> Errorf("literal was expected to be a string")]
    ELSE [s |-> lit.Source, err |-> NoError]

\* the first non-body key kept as the verb instead of the last
HttpLiteralFirst(b, opt, k, acc) ==
    LET l == opt.Constant.OrderedMap[k]
        v == handleLiteralString(l.Literal)
    IN  IF l.Name = "body"
        THEN [acc EXCEPT !.body = v.s,
                !.err = IF v.err # NoError
                        THEN formatError(b, opt.Position,
                                         "option for body should be a string")
                        ELSE NoError]
        ELSE IF acc.method # "" THEN acc
        ELSE [acc EXCEPT !.method = l.Name, !.url = v.s,
                !.err = IF v.err # NoError
                        THEN formatError(b, opt.Position,
                                         "option for " \o Quote(l.Name)
                                         \o " should be a string (url)")
                        ELSE NoError]

\* the loop over the ordered key/literal list of a (google.api.http) option
\* (lines 442-456)
HttpLiteral(b, opt, k, acc) ==
    LET l == opt.Constant.OrderedMap[k]
        v == handleLiteralString(l.Literal)
    IN  IF l.Name = "body"
        THEN [acc EXCEPT !.body = v.s,
                !.err = IF v.err # NoError
                        THEN formatError(b, opt.Position,
                                         "option for body should be a string")
                        ELSE NoError]
        ELSE [acc EXCEPT !.method = l.Name, !.url = v.s,
                !.err = IF v.err # NoError
                        THEN formatError(b, opt.Position,
                                         "option for " \o Quote(l.Name)
                                         \o " should be a string (url)")
                        ELSE NoError]

RECURSIVE HttpLiterals(_, _, _, _)
HttpLiterals(b, opt, k, acc) ==
    IF k > Len(opt.Constant.OrderedMap) \/ acc.err # NoError THEN acc
    ELSE HttpLiterals(b, opt, k + 1, HttpLiteral(b, opt, k, acc))

\* the verb, path and body read from a (google.api.http) option
HttpOf(b, opt) ==
    HttpLiterals(b, opt, 1, [method |-> "", url |-> "", body |-> "", err |-> NoError])

HttpImport == "github.com/gunk/opt/http"

\* the annotation block (lines 465-471)
HttpMatch(method, url, body) ==
    CatAll(<<Line("\t// +gunk http.Match{"),
             Line("\t//     Method: " \o Quote(ToUpper(method)) \o ","),
             Line("\t//     Path: " \o Quote(url) \o ","),
             IF body # "" THEN Line("\t//     Body: " \o Quote(body) \o ",") ELSE Empty,
             Line("\t// }")>>)

\* one (google.api.http) option of a method (lines 433-473)
HttpOption(acc, opt) ==
    IF Len(opt.Constant.OrderedMap) = 0
    THEN [acc EXCEPT !.err = formatError(acc.b, opt.Position,
                                         "expected option to be a map")]
    ELSE LET h == HttpOf(acc.b, opt)
         IN  IF h.err # NoError THEN [acc EXCEPT !.err = h.err]
             ELSE IF h.method # "" /\ h.url # ""
             THEN [acc EXCEPT
                     !.w = Cat(IF acc.comment # <<>>
                               THEN Format(@, 1, acc.comment, Line("//"))
                               ELSE @,
                               HttpMatch(h.method, h.url, h.body)),
                     !.comment = <<>>,
                     !.b = [@ EXCEPT !.importsUsed = @ \cup {HttpImport}]]
             ELSE acc

\* one turn of the loop over the elements of a method (lines 427-477)
RpcElement(r, j, acc) ==
    LET o == r.Elements[j]
    IN  IF o.kind # "Option"
        THEN [acc EXCEPT !.err =
                formatError(acc.b, r.Position,
                            "unexpected type " \o TypeName(o)
                            \o " in service rpc, expected option")]
        ELSE IF o.Name = "(google.api.http)"
        THEN HttpOption(acc, o)
        ELSE [acc EXCEPT !.stderr = Append(@, Unhandled(acc.b, o, "method"))]

RECURSIVE RpcElements(_, _, _)
RpcElements(r, j, acc) ==
    IF j > Len(r.Elements) \/ acc.err # NoError THEN acc
    ELSE RpcElements(r, j + 1, RpcElement(r, j, acc))

EmptyType == "google.protobuf.Empty"

\* the method signature (lines 480-488)
Signature(r) ==
    r.Name \o "(" \o (IF r.RequestType = EmptyType THEN "" ELSE r.RequestType)
    \o ") " \o (IF r.ReturnsType = EmptyType THEN "" ELSE r.ReturnsType)

\* one method of a service (lines 415-488)
ServiceRPC(i, e, acc) ==
    LET sep == IF i - 1 > 0 /\ (e.Comment # <<>> \/ Len(e.Elements) > 0)
               THEN Cat(acc.w, Nl) ELSE acc.w
        a == RpcElements(e, 1,
                [b |-> acc.b, w |-> sep, comment |-> e.Comment,
                 stderr |-> acc.stderr, err |-> NoError])
    IN  [b |-> a.b,
         w |-> IF a.err # NoError THEN a.w
               ELSE Format(a.w, 1, a.comment, Line(Signature(e))),
         stderr |-> a.stderr,
         err |-> a.err]

\* one turn of the loop over s.Elements (lines 403-489)
ServiceElement(s, i, acc) ==
    LET e == s.Elements[i]
    IN  CASE e.kind = "RPC" -> ServiceRPC(i, e, acc)
          [] e.kind = "Option" ->
               [acc EXCEPT !.stderr = Append(@, Unhandled(acc.b, e, "service"))]
          [] OTHER ->
               [acc EXCEPT !.err =
                   formatError(acc.b, s.Position,
                               "unexpected type " \o TypeName(e)
                               \o " in service, expected rpc")]

RECURSIVE ServiceElements(_, _, _)
ServiceElements(s, i, acc) ==
    IF i > Len(s.Elements) \/ acc.err # NoError THEN acc
    ELSE ServiceElements(s, i + 1, ServiceElement(s, i, acc))

handleService(b, s) ==
    LET r == ServiceElements(s, 1,
                [b |-> b,
                 w |-> Format(Empty, 0, s.Comment,
                              Line("type " \o s.Name \o " interface {")),
                 stderr |-> <<>>, err |-> NoError])
    IN  IF r.err # NoError
        THEN [b |-> r.b, err |-> r.err, stderr |-> r.stderr]
        ELSE [b |-> [r.b EXCEPT !.translatedDeclarations =
                         Append(@, Format(r.w, 0, <<>>, <<"}">>))],
              err |-> NoError,
              stderr |-> r.stderr]

(***************************************************************************)
(* handleProtoType.                                                        *)
(***************************************************************************)
handleProtoType(b, typ) ==
    CASE typ.kind = "Syntax" -> [b |-> b, err |-> NoError, stderr |-> <<>>]
      [] typ.kind = "Package" ->
            [b |-> [b EXCEPT !.pkg = typ], err |-> NoError, stderr |-> <<>>]
      [] typ.kind = "Import" ->
            [b |-> [b EXCEPT !.imports = Append(@, typ)],
             err |-> NoError, stderr |-> <<>>]
      [] typ.kind = "Message" -> handleMessage(b, typ)
      [] typ.kind = "Enum" -> handleEnum(b, typ)
      [] typ.kind = "Service" -> handleService(b, typ)
      [] typ.kind = "Option" ->
            [b |-> [b EXCEPT !.pkgOpts = Append(@, typ)],
             err |-> NoError, stderr |-> <<>>]
      [] OTHER ->
            [b |-> b, stderr |-> <<>>,
             err |-> Errorf("unhandled proto type " \o TypeName(typ))]


(***************************************************************************)
(* handlePackage and handleImports.                                        *)
(***************************************************************************)
genAnnotation(name, value) == name \o "(" \o value \o ")"

genAnnotationString(name, value) == name \o "(" \o Quote(value) \o ")"

FileImport == "github.com/gunk/opt/file"
JavaImport == "github.com/gunk/opt/file/java"
SwiftImport == "github.com/gunk/opt/file/swift"
CsharpImport == "github.com/gunk/opt/file/csharp"
ObjcImport == "github.com/gunk/opt/file/objc"
PhpImport == "github.com/gunk/opt/file/php"
CcImport == "github.com/gunk/opt/file/cc"

RecognizedOptions ==
    {"go_package", "deprecated", "optimize_for", "java_package",
     "java_outer_classname", "java_multiple_files", "java_string_check_utf8",
     "java_generic_services", "swift_prefix", "csharp_namespace",
     "objc_class_prefix", "php_generic_services", "cc_generic_services",
     "cc_enable_arenas"}

\* the switch of lines 511-555 for an option other than go_package: the
\* import of the option's family and the annotation value
FileOption(n, val) ==
    CASE n = "deprecated" ->
            [impt |-> FileImport, value |-> genAnnotation("Deprecated", val)]
      [] n = "optimize_for" ->
            [impt |-> FileImport, value |-> genAnnotation("OptimizeFor", val)]
      [] n = "java_package" ->
            [impt |-> JavaImport, value |-> genAnnotationString("Package", val)]
      [] n = "java_outer_classname" ->
            [impt |-> JavaImport, value |-> genAnnotationString("OuterClassname", val)]
      [] n = "java_multiple_files" ->
            [impt |-> JavaImport, value |-> genAnnotation("MultipleFiles", val)]
      [] n = "java_string_check_utf8" ->
            [impt |-> JavaImport, value |-> genAnnotation("StringCheckUtf8", val)]
      [] n = "java_generic_services" ->
            [impt |-> JavaImport, value |-> genAnnotation("GenericServices", val)]
      [] n = "swift_prefix" ->
            [impt |-> SwiftImport, value |-> ""]
      [] n = "csharp_namespace" ->
            [impt |-> CsharpImport, value |-> genAnnotationString("Namespace", val)]
      [] n = "objc_class_prefix" ->
            [impt |-> ObjcImport, value |-> genAnnotationString("ClassPrefix", val)]
      [] n = "php_generic_services" ->
            [impt |-> PhpImport, value |-> genAnnotation("GenericServices", val)]
      [] n = "cc_generic_services" ->
            [impt |-> CcImport, value |-> genAnnotation("GenericServices", val)]
      [] n = "cc_enable_arenas" ->
            [impt |-> CcImport, value |-> genAnnotation("EnableArenas", val)]

NilOption ==
    [kind |-> "nil", Name |-> "", Comment |-> <<>>, Position |-> NoPos,
     Constant |-> [Source |-> "", IsString |-> FALSE, OrderedMap |-> <<>>]]

\* an option outside the vocabulary skipped instead of reported
PackageOptionLenient(b, k, acc) ==
    LET o == b.pkgOpts[k]
    IN  IF o.Name = "go_package" THEN [acc EXCEPT !.opt = o]
        ELSE IF o.Name \notin RecognizedOptions THEN acc
        ELSE LET a == FileOption(o.Name, o.Constant.Source)
             IN  [acc EXCEPT
                    !.importsUsed = @ \cup {a.impt},
                    !.gunkAnnotations = Append(@, Base(a.impt) \o "." \o a.value)]

\* one turn of the loop over b.pkgOpts (lines 507-560)
PackageOption(b, k, acc) ==
    LET o == b.pkgOpts[k]
    IN  IF o.Name = "go_package" THEN [acc EXCEPT !.opt = o]
        ELSE IF o.Name \notin RecognizedOptions
        THEN [acc EXCEPT !.err =
                formatError(b, o.Position,
                            Quote(o.Name) \o " is an unhandled proto file option")]
        ELSE LET a == FileOption(o.Name, o.Constant.Source)
             IN  [acc EXCEPT
                    !.importsUsed = @ \cup {a.impt},
                    !.gunkAnnotations = Append(@, Base(a.impt) \o "." \o a.value)]

RECURSIVE PackageOptions(_, _, _)
PackageOptions(b, k, acc) ==
    IF k > Len(b.pkgOpts) \/ acc.err # NoError THEN acc
    ELSE PackageOptions(b, k + 1, PackageOption(b, k, acc))

RECURSIVE AnnotationLines(_)
AnnotationLines(gas) ==
    IF gas = <<>> THEN Empty
    ELSE Cat(Line("// +gunk " \o gas[1]), AnnotationLines(Tail(gas)))

\* the text written after the loop (lines 564-578)
PackageText(p, opt, gas) ==
    LET w1 == Format(AnnotationLines(gas), 0, p.Comment, Empty)
        w2 == IF opt # NilOption THEN Format(w1, 0, opt.Comment, Empty) ELSE w1
        w3 == Format(w2, 0, <<>>, <<"package " \o p.Name>>)
    IN  IF opt # NilOption /\ opt.Constant.Source # ""
        THEN Format(w3, 0, <<>>, <<" // proto " \o opt.Constant.Source>>)
        ELSE w3

\* panic is the nil dereference of line 569 in a document with no package
\* statement.
handlePackage(b) ==
    LET r == PackageOptions(b, 1,
                [gunkAnnotations |-> <<>>, importsUsed |-> b.importsUsed,
                 opt |-> NilOption, err |-> NoError])
        b2 == [b EXCEPT !.importsUsed = r.importsUsed]
    IN  IF r.err # NoError
        THEN [b |-> b2, text |-> Empty, err |-> r.err, panic |-> FALSE]
        ELSE IF b.pkg = NilPackage
        THEN [b |-> b2, text |-> Empty, err |-> NoError, panic |-> TRUE]
        ELSE [b |-> b2, text |-> PackageText(b.pkg, r.opt, r.gunkAnnotations),
              err |-> NoError, panic |-> FALSE]

\* the orders in which a range over a Go map of these keys can run
RECURSIVE Orders(_)
Orders(S) ==
    IF S = {} THEN {<<>>}
    ELSE UNION {{<<x>> \o o : o \in Orders(S \ {x})} : x \in S}

RECURSIVE UsedLines(_)
UsedLines(order) ==
    IF order = <<>> THEN Empty
    ELSE Cat(<<"", "\t" \o Quote(order[1])>>, UsedLines(Tail(order)))

RECURSIVE SourceImportLines(_)
SourceImportLines(imports) ==
    IF imports = <<>> THEN Empty
    ELSE Cat(<<"", "\t// " \o Quote(imports[1].Filename)>>,
             SourceImportLines(Tail(imports)))

\* the block left out unless a source import exists
handleImportsSourceOnly(b, order) ==
    IF Len(b.imports) = 0 THEN Empty
    ELSE CatAll(<<<<"import (">>, UsedLines(order),
                  SourceImportLines(b.imports), <<"", ")">>>>)

\* order is the order in which the range over b.importsUsed runs
handleImports(b, order) ==
    IF b.importsUsed = {} /\ Len(b.imports) = 0 THEN Empty
    ELSE CatAll(<<<<"import (">>, UsedLines(order),
                  SourceImportLines(b.imports), <<"", ")">>>>)

(***************************************************************************)
(* The text convertFile assembles (lines 125-137).                         *)
(***************************************************************************)
RECURSIVE Declarations(_)
Declarations(ds) ==
    IF ds = <<>> THEN Empty
    ELSE CatAll(<<Nl, ds[1], Nl, Declarations(Tail(ds))>>)

AfterPackage == <<"", "", "">>

\* the separator after the package text written as one newline only
AssembledOneNewline(translatedPkg, translatedImports, translatedDeclarations) ==
    CatAll(<<translatedPkg, Nl,
             IF translatedImports # Empty THEN Cat(translatedImports, Nl) ELSE Empty,
             Declarations(translatedDeclarations)>>)

Assembled(translatedPkg, translatedImports, translatedDeclarations) ==
    CatAll(<<translatedPkg, AfterPackage,
             IF translatedImports # Empty THEN Cat(translatedImports, Nl) ELSE Empty,
             Declarations(translatedDeclarations)>>)


(***************************************************************************)
(* Parsed documents.  The parser gives every element its position; here    *)
(* the i-th top-level declaration stands on line i at column 1 and every   *)
(* nested element further right on that line, each at a column of its own. *)
(***************************************************************************)
RECURSIVE Stamp(_, _, _)
Stamp(e, line, col) ==
    LET p == [e EXCEPT !.Position = [Line |-> line, Column |-> col]]
        q == IF "Elements" \in DOMAIN p
             THEN [p EXCEPT !.Elements =
                      [j \in DOMAIN @ |-> Stamp(@[j], line, 10 * col + j)]]
             ELSE p
    IN  IF "Options" \in DOMAIN q
        THEN [q EXCEPT !.Options =
                 [j \in DOMAIN @ |-> Stamp(@[j], line, 10 * col + j)]]
        ELSE q

Doc(es) ==
    [Parsed |-> TRUE, Elements |-> [i \in DOMAIN es |-> Stamp(es[i], i, 1)]]

\* a path that parser.Parse rejects (line 92)
Unparsed == [Parsed |-> FALSE, Elements |-> <<>>]

Filenames == <<"a.proto", "b.proto", "c.proto", "d.proto">>

Literal(source, isString) ==
    [Source |-> source, IsString |-> isString, OrderedMap |-> <<>>]

Option(name, constant) ==
    [kind |-> "Option", Name |-> name, Constant |-> constant,
     Comment |-> <<>>, Position |-> NoPos]

SyntaxDecl == [kind |-> "Syntax", Position |-> NoPos]

PackageDecl ==
    [kind |-> "Package", Name |-> "util", Comment |-> <<>>, Position |-> NoPos]

ImportDecl ==
    [kind |-> "Import", Filename |-> "google/api/annotations.proto",
     Position |-> NoPos]

CommentElement == [kind |-> "Comment", Lines |-> <<" detached">>, Position |-> NoPos]

ReservedElement == [kind |-> "Reserved", Position |-> NoPos]

OneofElement == [kind |-> "Oneof", Position |-> NoPos]

JavaPackageOption == Option("java_package", Literal("com.example.util", TRUE))

CustomOption == Option("totally_custom_option", Literal("true", FALSE))

DeprecatedOption == Option("deprecated", Literal("true", FALSE))

NormalField(name, type, sequence, repeated, options) ==
    [kind |-> "NormalField", Name |-> name, Type |-> type, Sequence |-> sequence,
     Repeated |-> repeated, Comment |-> <<>>, Options |-> options,
     Position |-> NoPos]

MapField(name, keyType, type, sequence, options) ==
    [kind |-> "MapField", Name |-> name, KeyType |-> keyType, Type |-> type,
     Sequence |-> sequence, Comment |-> <<>>, Options |-> options,
     Position |-> NoPos]

EnumField(name, integer, elements) ==
    [kind |-> "EnumField", Name |-> name, Integer |-> integer, Comment |-> <<>>,
     Elements |-> elements, Position |-> NoPos]

Enum(name, elements) ==
    [kind |-> "Enum", Name |-> name, Comment |-> <<>>, Elements |-> elements,
     Position |-> NoPos]

Message(name, comment, elements) ==
    [kind |-> "Message", Name |-> name, Comment |-> comment,
     Elements |-> elements, Position |-> NoPos]

RPC(name, requestType, returnsType, comment, elements) ==
    [kind |-> "RPC", Name |-> name, RequestType |-> requestType,
     ReturnsType |-> returnsType, Comment |-> comment, Elements |-> elements,
     Position |-> NoPos]

Service(name, elements) ==
    [kind |-> "Service", Name |-> name, Comment |-> <<>>, Elements |-> elements,
     Position |-> NoPos]

HttpOption1(orderedMap) ==
    Option("(google.api.http)",
           [Source |-> "", IsString |-> FALSE, OrderedMap |-> orderedMap])

Named(name, source, isString) ==
    [Name |-> name, Literal |-> Literal(source, isString)]

\* the declarations of the documents of Spec
StatusEnum ==
    Enum("Status", <<EnumField("Unknown", 0, <<>>), EnumField("Error", 1, <<>>),
                     EnumField("OK", 2, <<DeprecatedOption>>)>>)

BrokenEnum == Enum("Broken", <<EnumField("A", 0, <<>>), ReservedElement>>)

MessageDecl ==
    Message("Message", <<" Message is a Echo message.">>,
            <<NormalField("msg", "string", 1, FALSE, <<DeprecatedOption>>),
              MapField("labels", "string", "sint32", 2, <<DeprecatedOption>>)>>)

ResponseDecl ==
    Message("Response", <<>>,
            <<Enum("Kind", <<EnumField("A", 1, <<>>), EnumField("B", 2, <<>>)>>),
              NormalField("Kind", "Kind", 1, FALSE, <<>>),
              NormalField("code", "int32", 2, TRUE, <<>>)>>)

NestedBrokenDecl ==
    Message("Holder", <<>>,
            <<BrokenEnum, NormalField("code", "int32", 1, FALSE, <<>>)>>)

OneofDecl ==
    Message("Choice", <<>>,
            <<NormalField("code", "int32", 1, FALSE, <<>>), OneofElement>>)

UtilService ==
    Service("Util",
            <<RPC("Echo", "Message", "Message", <<" Echo echoes a message.">>,
                  <<HttpOption1(<<Named("post", "/v1/echo", TRUE),
                                  Named("body", "*", TRUE)>>)>>),
              RPC("CheckStatus", EmptyType, "Response", <<>>,
                  <<HttpOption1(<<Named("get", "/v1/echo", TRUE)>>)>>)>>)

BrokenService ==
    Service("Broken", <<RPC("Ping", EmptyType, EmptyType, <<>>, <<>>), CommentElement>>)

BrokenMethodService ==
    Service("Pinger",
            <<RPC("Ping", EmptyType, EmptyType, <<>>, <<DeprecatedOption, CommentElement>>)>>)

TopElements ==
    {SyntaxDecl, PackageDecl, ImportDecl, JavaPackageOption, CustomOption,
     CommentElement, MessageDecl, ResponseDecl, NestedBrokenDecl, OneofDecl,
     StatusEnum, BrokenEnum, UtilService, BrokenService, BrokenMethodService}

\* the sequences over S of length lo..hi
SeqsOf(S, lo, hi) == UNION {[1..n -> S] : n \in lo..hi}

Documents == {Doc(es) : es \in SeqsOf(TopElements, 0, MaxElements)}

(***************************************************************************)
(* The state.                                                              *)
(***************************************************************************)
VARIABLES
    paths,              \* Run's batch: the parsed document of each path
    pathIdx,            \* the path Run's loop is at
    pc,                 \* where Run and convertFile stand
    elemIdx,            \* the elements of d.Elements handled so far
    b,                  \* the builder of the document under translation
    translatedPkg,      \* handlePackage's text
    translatedImports,  \* handleImports' text
    w,                  \* the text convertFile assembled
    err,                \* the error convertFile returned
    stderr,             \* the lines on os.Stderr for the current document
    files,              \* the text written for each path, NoFile if none
    tm                  \* the tokens goType gave for the key and value type
                        \* of a map field, each applied to the one before

vars ==
    <<paths, pathIdx, pc, elemIdx, b, translatedPkg, translatedImports, w, err,
      stderr, files, tm>>

NoFile == <<>>

NoTypes == [keyType |-> <<>>, fieldType |-> <<>>]

d == paths[pathIdx]

InitOver(batches) ==
    /\ paths \in batches
    /\ pathIdx = 1
    /\ pc = "run"
    /\ elemIdx = 0
    /\ b = NewBuilder("")
    /\ translatedPkg = Empty
    /\ translatedImports = Empty
    /\ w = Empty
    /\ err = NoError
    /\ stderr = <<>>
    /\ files = [k \in DOMAIN paths |-> NoFile]
    /\ tm = NoTypes

Init == InitOver({<<doc>> : doc \in Documents})

\* line 93
ParseError(path) == Errorf("unable to parse proto file " \o Quote(path))

\* the error of format.Source (line 145)
FormatError == Errorf("format.Source")

\* convertFile up to the builder (lines 79-108)
ConvertFile ==
    /\ pc = "run"
    /\ IF d.Parsed
       THEN /\ pc' = "elements"
            /\ err' = NoError
       ELSE /\ pc' = "returned"
            /\ err' = ParseError(Filenames[pathIdx])
    /\ b' = NewBuilder(Filenames[pathIdx])
    /\ elemIdx' = 0
    /\ translatedPkg' = Empty
    /\ translatedImports' = Empty
    /\ w' = Empty
    /\ stderr' = <<>>
    /\ UNCHANGED <<paths, pathIdx, files, tm>>

\* one turn of the loop over d.Elements (lines 109-113)
HandleElement ==
    /\ pc = "elements"
    /\ elemIdx < Len(d.Elements)
    /\ LET r == handleProtoType(b, d.Elements[elemIdx + 1])
       IN  /\ b' = r.b
           /\ stderr' = stderr \o r.stderr
           /\ elemIdx' = elemIdx + 1
           /\ IF r.err # NoError
              THEN /\ err' = [r.err EXCEPT !.Msg = @ \o "\n"]
                   /\ pc' = "returned"
              ELSE /\ err' = NoError
                   /\ pc' = "elements"
    /\ UNCHANGED <<paths, pathIdx, translatedPkg, translatedImports, w, files, tm>>

\* lines 116-119
HandlePackage ==
    /\ pc = "elements"
    /\ elemIdx = Len(d.Elements)
    /\ LET r == handlePackage(b)
       IN  /\ b' = r.b
           /\ translatedPkg' = r.text
           /\ err' = r.err
           /\ pc' = IF r.panic THEN "panic"
                    ELSE IF r.err # NoError THEN "returned" ELSE "imports"
    /\ UNCHANGED <<paths, pathIdx, elemIdx, translatedImports, w, stderr, files, tm>>

\* line 120
HandleImports ==
    /\ pc = "imports"
    /\ \E order \in Orders(b.importsUsed) :
          translatedImports' = handleImports(b, order)
    /\ pc' = "assemble"
    /\ UNCHANGED <<paths, pathIdx, elemIdx, b, translatedPkg, w, err, stderr, files, tm>>

\* lines 125-137
Assemble ==
    /\ pc = "assemble"
    /\ w' = Assembled(translatedPkg, translatedImports, b.translatedDeclarations)
    /\ pc' = "format"
    /\ UNCHANGED <<paths, pathIdx, elemIdx, b, translatedPkg, translatedImports,
                   err, stderr, files, tm>>

\* lines 142-152: format.Source accepts the text or not, which this model
\* leaves open.  files keeps the accepted text; the bytes on disk are
\* format.Source's rendering of it, a function of that text alone.
FormatAndWrite ==
    /\ pc = "format"
    /\ \E accepted \in BOOLEAN :
          IF accepted
          THEN /\ files' = [files EXCEPT ![pathIdx] = w]
               /\ err' = NoError
          ELSE /\ files' = files
               /\ err' = FormatError
    /\ pc' = "returned"
    /\ UNCHANGED <<paths, pathIdx, elemIdx, b, translatedPkg, translatedImports,
                   w, stderr, tm>>

\* the loop going on to the next path after an error
RunLoopContinue ==
    /\ pc = "returned"
    /\ IF pathIdx < Len(paths)
       THEN /\ pc' = "run"
            /\ pathIdx' = pathIdx + 1
       ELSE /\ pc' = "done"
            /\ pathIdx' = pathIdx
    /\ UNCHANGED <<paths, elemIdx, b, translatedPkg, translatedImports, w, err,
                   stderr, files, tm>>

\* Run's loop after convertFile returned (lines 40-45)
RunLoop ==
    /\ pc = "returned"
    /\ IF err # NoError
       THEN /\ pc' = "done"
            /\ pathIdx' = pathIdx
       ELSE IF pathIdx < Len(paths)
       THEN /\ pc' = "run"
            /\ pathIdx' = pathIdx + 1
       ELSE /\ pc' = "done"
            /\ pathIdx' = pathIdx
    /\ UNCHANGED <<paths, elemIdx, b, translatedPkg, translatedImports, w, err,
                   stderr, files, tm>>

Next ==
    \/ ConvertFile
    \/ HandleElement
    \/ HandlePackage
    \/ HandleImports
    \/ Assemble
    \/ FormatAndWrite
    \/ RunLoop

Spec == Init /\ [][Next]_vars


(***************************************************************************)
(* Batches of documents: Run over several paths.                           *)
(***************************************************************************)
BatchDocuments ==
    {Doc(<<PackageDecl, MessageDecl>>),
     Doc(<<ImportDecl, PackageDecl, UtilService>>),
     Doc(<<PackageDecl, CustomOption, StatusEnum>>),
     Doc(<<PackageDecl, OneofDecl>>),
     Doc(<<MessageDecl>>),
     Unparsed}

InitBatch == InitOver(SeqsOf(BatchDocuments, 1, MaxPaths))

SpecBatch == InitBatch /\ [][Next]_vars

(***************************************************************************)
(* Enumerations: every element list of up to MaxEnumElements values,       *)
(* options and reserved ranges, as a top-level enum and nested in a        *)
(* message.                                                                *)
(***************************************************************************)
AllowAliasOption == Option("allow_alias", Literal("true", FALSE))

EnumElements ==
    {EnumField("V" \o ToString(n), n, <<>>) : n \in 0..MaxEnumElements}
    \cup {AllowAliasOption, ReservedElement}

Enums == {Enum("E", es) : es \in SeqsOf(EnumElements, 0, MaxEnumElements)}

EnumDocuments ==
    {Doc(<<PackageDecl, e>>) : e \in Enums}
    \cup {Doc(<<PackageDecl,
                Message("M", <<>>, <<e, NormalField("code", "int32", 1, FALSE, <<>>)>>)>>)
          : e \in Enums}

InitEnum == InitOver({<<doc>> : doc \in EnumDocuments})

SpecEnum == InitEnum /\ [][Next]_vars

(***************************************************************************)
(* Services: one method with one (google.api.http) option, over every      *)
(* ordered key/literal list of up to MaxMap entries.                       *)
(***************************************************************************)
HttpEntries ==
    {Named(k, v, TRUE) : k \in {"get", "Post", "body"}, v \in {"/v1/echo", "*", ""}}
    \cup {Named("get", "1", FALSE), Named("body", "1", FALSE)}

HttpMaps == SeqsOf(HttpEntries, 0, MaxMap)

Methods ==
    {RPC("Echo", "Message", EmptyType, c, <<HttpOption1(m)>>)
     : c \in {<<>>, <<" Echo echoes a message.">>}, m \in HttpMaps}

ServiceDocuments == {Doc(<<PackageDecl, Service("Util", <<r>>)>>) : r \in Methods}

InitService == InitOver({<<doc>> : doc \in ServiceDocuments})

SpecService == InitService /\ [][Next]_vars

(***************************************************************************)
(* File options: every list of up to MaxOptions recognized options.        *)
(***************************************************************************)
StringOptions ==
    {"go_package", "java_package", "java_outer_classname", "swift_prefix",
     "csharp_namespace", "objc_class_prefix"}

FileOptions ==
    {Option(n, Literal("Util", TRUE)) : n \in StringOptions}
    \cup {Option("optimize_for", Literal("SPEED", FALSE))}
    \cup {Option(n, Literal("true", FALSE))
          : n \in RecognizedOptions \ (StringOptions \cup {"optimize_for"})}

OptionDocuments ==
    {Doc(<<PackageDecl>> \o os) : os \in SeqsOf(FileOptions, 0, MaxOptions)}

InitOptions == InitOver({<<doc>> : doc \in OptionDocuments})

SpecOptions == InitOptions /\ [][Next]_vars

(***************************************************************************)
(* The Type Mapper on the key and value type of a map field (lines         *)
(* 275-276), applied again to the tokens it returned.                      *)
(***************************************************************************)
TypeNames == ScalarNames \cup {"Message", "Status", EmptyType}

InitTypes ==
    /\ paths = <<>>
    /\ pathIdx = 1
    /\ pc = "done"
    /\ elemIdx = 0
    /\ b = NewBuilder("")
    /\ translatedPkg = Empty
    /\ translatedImports = Empty
    /\ w = Empty
    /\ err = NoError
    /\ stderr = <<>>
    /\ files = <<>>
    /\ \E k \in TypeNames, v \in TypeNames :
          tm = [keyType |-> <<k>>, fieldType |-> <<v>>]

Last(s) == s[Len(s)]

MapFieldTypes ==
    /\ Len(tm.keyType) <= MaxApply
    /\ tm' = [keyType |-> Append(tm.keyType, goType(Last(tm.keyType))),
              fieldType |-> Append(tm.fieldType, goType(Last(tm.fieldType)))]
    /\ UNCHANGED <<paths, pathIdx, pc, elemIdx, b, translatedPkg,
                   translatedImports, w, err, stderr, files>>

SpecTypes == InitTypes /\ [][MapFieldTypes]_vars


(***************************************************************************)
(* Documents for the import block: a package statement followed by source  *)
(* imports, file options, services with and without a routing annotation   *)
(* that yields a block, and a message.                                     *)
(***************************************************************************)
EmptyImportDecl ==
    [kind |-> "Import", Filename |-> "google/protobuf/empty.proto",
     Position |-> NoPos]

GoPackageOption == Option("go_package", Literal("example.com/util", TRUE))

SwiftPrefixOption == Option("swift_prefix", Literal("Util", TRUE))

\* a method whose routing option has a verb with an empty path: no block
PlainService ==
    Service("Plain",
            <<RPC("Ping", EmptyType, EmptyType, <<>>,
                  <<HttpOption1(<<Named("get", "", TRUE)>>)>>)>>)

ImportElements ==
    {ImportDecl, EmptyImportDecl, JavaPackageOption, SwiftPrefixOption,
     GoPackageOption, UtilService, PlainService, MessageDecl}

ImportDocuments ==
    {Doc(<<PackageDecl>> \o es) : es \in SeqsOf(ImportElements, 0, MaxElements)}

InitImports == InitOver({<<doc>> : doc \in ImportDocuments})

SpecImports == InitImports /\ [][Next]_vars


(***************************************************************************)
(* What the claims speak of.                                               *)
(***************************************************************************)
ValuesOf(e) == SelectSeq(e.Elements, LAMBDA c : c.kind = "EnumField")

\* the values of e are 0, 1, ..., n-1 in declaration order
Sequential(e) == \A k \in DOMAIN ValuesOf(e) : ValuesOf(e)[k].Integer = k - 1

NestedEnums(m) == SelectSeq(m.Elements, LAMBDA c : c.kind = "Enum")

\* the enums of the declarations handled so far, nested ones included
EnumsHandled ==
    IF pc = "run" \/ paths = <<>> THEN {}
    ELSE {d.Elements[i] : i \in {j \in 1..elemIdx : d.Elements[j].kind = "Enum"}}
         \cup UNION {Range(NestedEnums(d.Elements[i]))
                     : i \in {j \in 1..elemIdx : d.Elements[j].kind = "Message"}}

WellFormedEnum(e) == \A k \in DOMAIN e.Elements : e.Elements[k].kind \in {"EnumField", "Option"}

\* C1: for every enumeration handleEnum translates, option elements among
\* its elements or not, the strategy is iota if and only if its values in
\* declaration order are exactly 0, 1, ..., n-1.
C1_IotaIffSequential ==
    \A e \in EnumsHandled :
        WellFormedEnum(e) => (OutputIota(b, e) <=> Sequential(e))


\* convertFile is past the loop over d.Elements, or in it with no error
Translating == pc \in {"elements", "imports", "assemble", "format"}

\* convertFile returned an error of the translation itself
Fatal == pc \in {"returned", "done"} /\ err # NoError
         /\ err \notin {FormatError, ParseError(Filenames[pathIdx])}

HeadLine(e) ==
    "type " \o e.Name \o
    (CASE e.kind = "Message" -> " struct {"
       [] e.kind = "Enum" -> " int"
       [] e.kind = "Service" -> " interface {")

RECURSIVE HeadLines(_)
HeadLines(es) ==
    IF es = <<>> THEN <<>> ELSE <<HeadLine(es[1])>> \o HeadLines(Tail(es))

\* the declarations that get a block, in the order the claim gives them
Blocks(e) ==
    CASE e.kind = "Message" -> HeadLines(NestedEnums(e)) \o <<HeadLine(e)>>
      [] e.kind \in {"Enum", "Service"} -> <<HeadLine(e)>>
      [] OTHER -> <<>>

RECURSIVE BlocksUpTo(_, _)
BlocksUpTo(es, n) ==
    IF n = 0 THEN <<>> ELSE BlocksUpTo(es, n - 1) \o Blocks(es[n])

\* C2: with no fatal error, translatedDeclarations holds one block per
\* top-level message, enum and service in document order, and one block per
\* nested enum, placed right before the block of its message; package,
\* import, option and syntax declarations add none.
C2_OneBlockPerDeclaration ==
    Translating =>
        LET heads == BlocksUpTo(d.Elements, elemIdx)
        IN  /\ Len(b.translatedDeclarations) = Len(heads)
            /\ \A k \in DOMAIN heads :
                  k <= Len(b.translatedDeclarations)
                  => heads[k] \in Range(b.translatedDeclarations[k])

UnexpectedIn(e) ==
    CASE e.kind = "Message" ->
            {c \in Range(e.Elements) :
                \/ c.kind \notin {"NormalField", "MapField", "Enum", "Comment", "Option"}
                \/ c.kind = "Enum" /\ ~WellFormedEnum(c)}
      [] e.kind = "Enum" ->
            {c \in Range(e.Elements) : c.kind \notin {"EnumField", "Option"}}
      [] e.kind = "Service" ->
            {c \in Range(e.Elements) :
                \/ c.kind \notin {"RPC", "Option"}
                \/ c.kind = "RPC" /\ \E o \in Range(c.Elements) : o.kind # "Option"}
      [] OTHER -> {}

\* C6: an element of an unexpected kind inside a message, a top-level enum,
\* an enum nested in a message, a service or an rpc aborts the translation
\* of the document with an error, and no output is assembled.
C6_UnexpectedKindAborts ==
    (pc # "run" /\ paths # <<>>) =>
        \A i \in 1..elemIdx :
            UnexpectedIn(d.Elements[i]) # {}
            => pc \in {"returned", "done"} /\ err # NoError /\ w = Empty


TopLevelKinds ==
    {"Syntax", "Package", "Import", "Message", "Enum", "Service", "Option"}

\* the elements that can be the cause of a fatal error while e is handled:
\* e itself when its kind is unhandled, else the elements of an unexpected
\* kind inside it (inside an rpc of it, when e is a service)
Offenders(e) ==
    IF e.kind \notin TopLevelKinds THEN {e}
    ELSE CASE e.kind = "Message" ->
                {c \in Range(e.Elements) :
                    c.kind \notin {"NormalField", "MapField", "Enum", "Comment", "Option"}}
           [] e.kind = "Enum" ->
                {c \in Range(e.Elements) : c.kind \notin {"EnumField", "Option"}}
           [] e.kind = "Service" ->
                {c \in Range(e.Elements) : c.kind \notin {"RPC", "Option"}}
                \cup UNION {{o \in Range(r.Elements) : o.kind # "Option"}
                            : r \in {c \in Range(e.Elements) : c.kind = "RPC"}}
           [] OTHER -> {}

UnrecognizedOptions(es) ==
    {o \in Range(es) : o.kind = "Option" /\ o.Name \notin RecognizedOptions}

\* C8: every fatal error of the translation of a document carries the
\* position of the offending element itself: the unrecognized file option,
\* the element of an unexpected kind inside a message, enum, service or
\* rpc, the top-level declaration of an unhandled kind.
C8_ErrorCarriesOffenderPosition ==
    Fatal =>
        /\ err.Positioned
        /\ err.Filename = Filenames[pathIdx]
        /\ err.Pos \in {o.Position :
                          o \in IF elemIdx > 0 /\ Offenders(d.Elements[elemIdx]) # {}
                                THEN Offenders(d.Elements[elemIdx])
                                ELSE UnrecognizedOptions(d.Elements)}


RECURSIVE StripTrailing(_)
\* the lines of a text without the empty lines at its end
StripTrailing(t) ==
    IF t # <<>> /\ t[Len(t)] = "" THEN StripTrailing(SubSeq(t, 1, Len(t) - 1)) ELSE t

RECURSIVE Separated(_, _)
\* the lines of the parts, each two consecutive parts with gap between them
Separated(parts, gap) ==
    IF Len(parts) = 1 THEN StripTrailing(parts[1])
    ELSE StripTrailing(parts[1]) \o gap \o Separated(Tail(parts), gap)

\* the parts of the assembled text: the package text, the import block if
\* it is not empty, the declaration blocks in accumulator order
Parts ==
    <<translatedPkg>>
    \o (IF translatedImports # Empty THEN <<translatedImports>> ELSE <<>>)
    \o b.translatedDeclarations

\* C9: the assembled text is the package text, the import block only if
\* non-empty, then the declaration blocks in accumulator order, each two
\* consecutive parts separated by exactly one blank line, import block
\* present or absent.
C9_OneBlankLineBetweenParts ==
    pc = "format" => StripTrailing(w) = Separated(Parts, <<"">>)

\* C9 (amended): the same parts in the same order; one blank line follows
\* the package text, then comes the import block if it is not empty, and
\* one blank line precedes every declaration block: with no import block
\* two blank lines separate the package text from the first declaration,
\* every other two consecutive parts are separated by exactly one.
C9_BlankLineAfterPackageAndBeforeEachBlock ==
    pc = "format" =>
        StripTrailing(w) =
            IF translatedImports # Empty \/ b.translatedDeclarations = <<>>
            THEN Separated(Parts, <<"">>)
            ELSE StripTrailing(translatedPkg) \o <<"", "">>
                 \o Separated(b.translatedDeclarations, <<"">>)

C9_Witness ==
    /\ pc = "format"
    /\ translatedImports = Empty
    /\ Len(b.translatedDeclarations) >= 2
    /\ w # Empty


\* the fields of message m that carry options
FieldsWithOptions(m) ==
    {f \in Range(m.Elements) :
        f.kind \in {"NormalField", "MapField"} /\ f.Options # <<>>}

\* the messages handled so far whose elements are all of a valid kind
MessagesHandled ==
    IF pc = "run" \/ paths = <<>> THEN {}
    ELSE {d.Elements[i] :
            i \in {j \in 1..elemIdx : /\ d.Elements[j].kind = "Message"
                                      /\ Offenders(d.Elements[j]) = {}}}

\* the lines of text t
LinesOf(t) == Range(StripTrailing(t))

\* C3: a file option outside the recognized vocabulary, wherever it stands
\* among the declarations, ends the translation of the document with a
\* fatal error and no text is assembled or written; an option on a message
\* field (plain or map) only yields a diagnostic line, and the field still
\* gets its line in the block of its message and in the assembled text.
C3_FileOptionFatalFieldOptionDiagnostic ==
    (pc # "run" /\ paths # <<>>) =>
        /\ UnrecognizedOptions(d.Elements) # {} =>
              /\ pc \in {"elements", "returned", "done"}
              /\ w = Empty
              /\ files[pathIdx] = NoFile
              /\ pc \in {"returned", "done"} => Fatal
        /\ \A m \in MessagesHandled : \A f \in FieldsWithOptions(m) :
              /\ \A k \in DOMAIN f.Options :
                    Unhandled(b, f.Options[k], "field") \in Range(stderr)
              /\ \E k \in DOMAIN b.translatedDeclarations :
                    /\ HeadLine(m) \in Range(b.translatedDeclarations[k])
                    /\ LinesOf(FieldLine(f)) \subseteq Range(b.translatedDeclarations[k])
              /\ pc = "format" => LinesOf(FieldLine(f)) \subseteq Range(w)

C3_Witness ==
    /\ pc = "returned"
    /\ elemIdx = Len(d.Elements)
    /\ UnrecognizedOptions(d.Elements) # {}
    /\ d.Elements[Len(d.Elements)].kind # "Option"
    /\ err.Msg = Quote("totally_custom_option") \o " is an unhandled proto file option"
    /\ \E m \in MessagesHandled : FieldsWithOptions(m) # {}
    /\ stderr # <<>>


\* the top-level services handled so far that hold one method carrying one
\* (google.api.http) option whose key/literal list is non-empty and all
\* string-valued
HttpServicesHandled ==
    IF pc = "run" \/ paths = <<>> THEN {}
    ELSE {d.Elements[i] :
            i \in {j \in 1..elemIdx :
                     LET s == d.Elements[j]
                     IN  /\ s.kind = "Service"
                         /\ Len(s.Elements) = 1
                         /\ s.Elements[1].kind = "RPC"
                         /\ Len(s.Elements[1].Elements) = 1
                         /\ s.Elements[1].Elements[1].kind = "Option"
                         /\ s.Elements[1].Elements[1].Name = "(google.api.http)"
                         /\ LET om == s.Elements[1].Elements[1].Constant.OrderedMap
                            IN  /\ om # <<>>
                                /\ \A k \in DOMAIN om : om[k].Literal.IsString}}

OrderedMapOf(s) == s.Elements[1].Elements[1].Constant.OrderedMap

NonBodyKeys(s) == SelectSeq(OrderedMapOf(s), LAMBDA l : l.Name # "body")

BodyKeys(s) == SelectSeq(OrderedMapOf(s), LAMBDA l : l.Name = "body")

ActiveVerb(s) ==
    IF NonBodyKeys(s) = <<>> THEN "" ELSE NonBodyKeys(s)[Len(NonBodyKeys(s))].Name

ActivePath(s) ==
    IF NonBodyKeys(s) = <<>> THEN ""
    ELSE NonBodyKeys(s)[Len(NonBodyKeys(s))].Literal.Source

ActiveBody(s) ==
    IF BodyKeys(s) = <<>> THEN "" ELSE BodyKeys(s)[Len(BodyKeys(s))].Literal.Source

MatchExpected(s) == ActiveVerb(s) # "" /\ ActivePath(s) # ""

\* the lines the claim gives the block of service s
ServiceBlockExpected(s) ==
    LET r == s.Elements[1]
        comment == [k \in DOMAIN r.Comment |-> "\t//" \o r.Comment[k]]
        match == <<"\t// +gunk http.Match{",
                   "\t//     Method: \"" \o ToUpper(ActiveVerb(s)) \o "\",",
                   "\t//     Path: \"" \o ActivePath(s) \o "\",">>
                 \o (IF ActiveBody(s) # ""
                     THEN <<"\t//     Body: \"" \o ActiveBody(s) \o "\",">> ELSE <<>>)
                 \o <<"\t// }">>
    IN  <<"type " \o s.Name \o " interface {">>
        \o comment
        \o (IF MatchExpected(s)
            THEN (IF comment # <<>> THEN <<"\t//">> ELSE <<>>) \o match ELSE <<>>)
        \o <<"\t" \o Signature(r), "}">>

\* C4: for a method whose (google.api.http) option has a non-empty, all
\* string-valued key/literal list, the verb and path are those of the last
\* non-body key and the body that of the body key; the http.Match block
\* stands above the signature if and only if verb and path are both
\* non-empty, with the verb upper-cased, the path quoted and a Body line
\* exactly when the body is non-empty; the block marks the http import.
C4_HttpMatchFromLastVerb ==
    Translating =>
        \A s \in HttpServicesHandled :
            /\ \E k \in DOMAIN b.translatedDeclarations :
                  b.translatedDeclarations[k] = ServiceBlockExpected(s)
            /\ MatchExpected(s) => HttpImport \in b.importsUsed
            /\ MatchExpected(s) <=>
                  \E k \in DOMAIN b.translatedDeclarations :
                      "\t// +gunk http.Match{" \in Range(b.translatedDeclarations[k])

C4_Witness ==
    /\ pc = "format"
    /\ \E s \in HttpServicesHandled :
          /\ Len(NonBodyKeys(s)) >= 2
          /\ NonBodyKeys(s)[1].Name # ActiveVerb(s)
          /\ NonBodyKeys(s)[1].Literal.Source # ActivePath(s)
          /\ MatchExpected(s)
          /\ s.Elements[1].Comment # <<>>
          /\ HttpImport \in b.importsUsed
          /\ "\t//     Method: \"POST\"," \in Range(w)


\* the file options of the document that are to get an annotation line
AnnotatedOptions ==
    SelectSeq(d.Elements, LAMBDA o : o.kind = "Option" /\ o.Name # "go_package")

AnnotationNames ==
    {"Deprecated", "OptimizeFor", "Package", "OuterClassname", "MultipleFiles",
     "StringCheckUtf8", "GenericServices", "Prefix", "Namespace", "ClassPrefix",
     "EnableArenas"}

\* the family of a recognized option: the directory of its import
FamilyImport(n) ==
    CASE n \in {"deprecated", "optimize_for"} -> "github.com/gunk/opt/file"
      [] n \in {"java_package", "java_outer_classname", "java_multiple_files",
                "java_string_check_utf8", "java_generic_services"} ->
            "github.com/gunk/opt/file/java"
      [] n = "swift_prefix" -> "github.com/gunk/opt/file/swift"
      [] n = "csharp_namespace" -> "github.com/gunk/opt/file/csharp"
      [] n = "objc_class_prefix" -> "github.com/gunk/opt/file/objc"
      [] n = "php_generic_services" -> "github.com/gunk/opt/file/php"
      [] n \in {"cc_generic_services", "cc_enable_arenas"} -> "github.com/gunk/opt/file/cc"

\* the lines of the form  // +gunk <family>.<Annotation>(<value>)  for
\* option o: the value bare for a boolean or numeric option, quoted for a
\* string option
AnnotationForms(o) ==
    {"// +gunk " \o Base(FamilyImport(o.Name)) \o "." \o a \o "("
        \o (IF o.Constant.IsString THEN Quote(o.Constant.Source) ELSE o.Constant.Source)
        \o ")" : a \in AnnotationNames}

\* C5: for file options of the recognized vocabulary handlePackage writes
\* one annotation line per option other than go_package, in declaration
\* order, above the package statement, each of the form
\* // +gunk <family>.<Annotation>(<value>), and adds the import of the
\* option's family; go_package yields no line and no import.
C5_OneAnnotationLinePerOption ==
    (pc \in {"imports", "assemble", "format"}
     /\ \A o \in Range(d.Elements) : o.kind = "Option" => o.Name \in RecognizedOptions) =>
        /\ Len(translatedPkg) >= Len(AnnotatedOptions) + 1
        /\ \A k \in DOMAIN AnnotatedOptions :
              /\ translatedPkg[k] \in AnnotationForms(AnnotatedOptions[k])
              /\ FamilyImport(AnnotatedOptions[k].Name) \in b.importsUsed
        /\ \A k \in DOMAIN translatedPkg :
              k > Len(AnnotatedOptions)
              => \A o \in Range(AnnotatedOptions) : translatedPkg[k] \notin AnnotationForms(o)
        /\ b.importsUsed \ {HttpImport}
              = {FamilyImport(AnnotatedOptions[k].Name) : k \in DOMAIN AnnotatedOptions}


RECURSIVE HandleAll(_, _, _)
\* the loop of convertFile over the elements es of one document, from
\* element i on, stopped by the first error
HandleAll(es, i, acc) ==
    IF i > Len(es) \/ acc.err # NoError THEN acc
    ELSE HandleAll(es, i + 1,
                   LET r == handleProtoType(acc.b, es[i])
                   IN  [b |-> r.b, err |-> r.err])

\* the texts convertFile can assemble for the k-th document of the batch
\* when it is processed alone; none if the translation fails
AloneTexts(k) ==
    IF ~paths[k].Parsed THEN {}
    ELSE LET r == HandleAll(paths[k].Elements, 1,
                            [b |-> NewBuilder(Filenames[k]), err |-> NoError])
             p == handlePackage(r.b)
         IN  IF r.err # NoError \/ p.err # NoError \/ p.panic THEN {}
             ELSE {Assembled(p.text, handleImports(p.b, order),
                             p.b.translatedDeclarations)
                   : order \in Orders(p.b.importsUsed)}

\* Run ended on the error of the document at pathIdx
RunFailed == \/ pc = "done" /\ err # NoError
             \/ pc = "panic"

TypeChains == {tm.keyType, tm.fieldType}

\* C10: goType is idempotent and stable: for each of the 15 scalar names
\* and for any other name, goType of the token goType returned is that
\* token again, and a name outside the fixed set maps to itself.
C10_GoTypeIdempotent ==
    \A c \in TypeChains :
        /\ Len(c) >= 3 => c[3] = c[2]
        /\ (Len(c) >= 2 /\ c[1] \notin ScalarNames) => c[2] = c[1]

\* C10 (amended): goType of the token goType returned is that token again
\* for every name except sint32 and sfixed32, whose token int32 goType maps
\* on to int; from the second application on the token is stable; a name
\* outside the fixed set maps to itself.
C10_GoTypeIdempotentButSigned32 ==
    \A c \in TypeChains :
        /\ Len(c) >= 3 =>
              IF c[1] \in {"sint32", "sfixed32"}
              THEN c[2] = "int32" /\ c[3] = "int"
              ELSE c[3] = c[2]
        /\ \A k \in 3..(Len(c) - 1) : c[k + 1] = c[k]
        /\ (Len(c) >= 2 /\ c[1] \notin ScalarNames) => c[2] = c[1]

C10_Witness ==
    /\ Len(tm.fieldType) >= 3
    /\ tm.fieldType[1] = "sint32"
    /\ tm.fieldType[3] = "int"
    /\ tm.keyType[1] = "string"
    /\ tm.keyType[3] = "string"


\* the lines of an enum block between its "const (" line and its last line
ValueLines(block) ==
    LET k == CHOOSE j \in DOMAIN block : block[j] = "const ("
    IN  SubSeq(block, k + 1, Len(block) - 1)

\* the value lines the claim gives enum e under the strategy selected
ValueLinesExpected(e, iota) ==
    [j \in DOMAIN ValuesOf(e) |->
        IF ~iota
        THEN "\t" \o ValuesOf(e)[j].Name \o " " \o e.Name \o " = "
             \o ToString(ValuesOf(e)[j].Integer)
        ELSE IF j = 1
             THEN "\t" \o ValuesOf(e)[j].Name \o " " \o e.Name \o " = iota"
             ELSE "\t" \o ValuesOf(e)[j].Name]

\* C11: under the auto-increment strategy the first value line of an enum
\* carries "= iota" and every later value is its bare name, so the place of
\* each value among the value lines equals its source integer; under the
\* explicit strategy every value line is "Name Type = <integer>".  Option
\* elements among the enum's elements are skipped and change none of this.
C11_ValueLinesFollowStrategy ==
    \A e \in EnumsHandled :
        WellFormedEnum(e) =>
            \E k \in DOMAIN b.translatedDeclarations :
                LET block == b.translatedDeclarations[k]
                IN  /\ HeadLine(e) \in Range(block)
                    /\ "const (" \in Range(block)
                    /\ ValueLines(block) = ValueLinesExpected(e, OutputIota(b, e))
                    /\ OutputIota(b, e) =>
                          \A j \in DOMAIN ValuesOf(e) : ValuesOf(e)[j].Integer = j - 1


\* the source imports of the document, in source order
SourceImports == SelectSeq(d.Elements, LAMBDA e : e.kind = "Import")

\* the imports of the annotations in the output: the http import if a
\* routing annotation stands in some block, the family import of every
\* file option that got an annotation line
AnnotationImports ==
    (IF \E k \in DOMAIN b.translatedDeclarations :
            "\t// +gunk http.Match{" \in Range(b.translatedDeclarations[k])
     THEN {"github.com/gunk/opt/http"} ELSE {})
    \cup {FamilyImport(AnnotatedOptions[k].Name) : k \in DOMAIN AnnotatedOptions}

\* the import blocks the claim allows: the annotation imports as normal
\* lines, in some order, then the source imports as comment lines in
\* source order
ImportBlocksExpected ==
    {<<"import (">>
     \o [k \in DOMAIN order |-> "\t\"" \o order[k] \o "\""]
     \o [k \in DOMAIN SourceImports |-> "\t// \"" \o SourceImports[k].Filename \o "\""]
     \o <<")">>
     : order \in Orders(AnnotationImports)}

\* the lines of w from its "import (" line to the first ")" line after it
ImportBlockOf(t) ==
    LET first == CHOOSE j \in DOMAIN t :
                    t[j] = "import (" /\ \A i \in 1..(j - 1) : t[i] # "import ("
        last == CHOOSE j \in first..Len(t) :
                    t[j] = ")" /\ \A i \in first..(j - 1) : t[i] # ")"
    IN  SubSeq(t, first, last)

\* C12: the assembled output holds an import block if and only if an
\* annotation import was marked required (by a routing annotation or by a
\* recognized file option) or the source has an import; the block lists the
\* import of every annotation of the output as a normal line, file-level
\* annotations included, and every source import as a comment line in
\* source order.
C12_ImportBlock ==
    pc = "format" =>
        /\ "import (" \in Range(w) <=> (AnnotationImports # {} \/ SourceImports # <<>>)
        /\ b.importsUsed = AnnotationImports
        /\ "import (" \in Range(w) =>
              /\ ImportBlockOf(w) \in ImportBlocksExpected
              /\ ImportBlockOf(w) = translatedImports

C12_Witness ==
    /\ pc = "format"
    /\ Cardinality(AnnotationImports) >= 2
    /\ "github.com/gunk/opt/http" \in AnnotationImports
    /\ Len(SourceImports) >= 1
    /\ "import (" \in Range(w)
    /\ "\t\"github.com/gunk/opt/file/java\"" \in Range(w)

=============================================================================
